---- MODULE Spec2Model ----
(***************************************************************************)
(* Go To Market AI Agent: the POST /api/agent route handler and the        *)
(* rule-based plan synthesizer runGoToMarketAgent.                         *)
(*                                                                         *)
(* JavaScript strings are TLA+ strings; characters are one-character       *)
(* strings taken with SubSeq.  The source's three non-ASCII characters    *)
(* (an em dash in two texts, a greater-or-equal sign in three targets)     *)
(* are written "--" and ">=" because the parser accepts ASCII only.        *)
(* The module-level tables of the agent are variables: a JavaScript const  *)
(* array or object is a binding to a mutable object that lives as long as  *)
(* the server process and is shared by every request.                      *)
(***************************************************************************)
EXTENDS Integers, Sequences, FiniteSets, TLC

VARIABLES
    personaArchetypes,   \* module-level table of the agent
    channelPlays,        \* module-level table of the agent
    growthBacklog,       \* module-level table of the agent
    measurementMatrix,   \* module-level table of the agent
    pc,                  \* position of each POST handler
    body,                \* the parsed request body each handler works on
    response,            \* the response each handler produced
    calls,               \* the calls of runGoToMarketAgent each handler made
    lastCall,            \* argument and result of the last direct agent call
    form,                \* AgentWorkspace: the form state
    loading,             \* AgentWorkspace: the loading state
    error,               \* AgentWorkspace: the error state (set: not null)
    result,              \* AgentWorkspace: the result state (set: not null)
    submits,             \* AgentWorkspace: the handleSubmit invocations in flight
    lastOutcome          \* how the last finished submission went

vars == <<personaArchetypes, channelPlays, growthBacklog, measurementMatrix,
          pc, body, response, calls, lastCall,
          form, loading, error, result, submits, lastOutcome>>

workspaceVars == <<form, loading, error, result, submits, lastOutcome>>

serverVars == <<pc, body, response, calls, lastCall>>

tableVars == <<personaArchetypes, channelPlays, growthBacklog, measurementMatrix>>

(***************************************************************************)
(* Bounds.                                                                 *)
(***************************************************************************)
NumRequests == 2

\* handleSubmit invocations the model has room for
MaxSubmits == 2

Requests == 1..NumRequests

(***************************************************************************)
(* String primitives of the JavaScript runtime that the code calls.        *)
(***************************************************************************)
UpperCaseLetters == "ABCDEFGHIJKLMNOPQRSTUVWXYZ"

LowerCaseLetters == "abcdefghijklmnopqrstuvwxyz"

CharAt(s, i) == SubSeq(s, i, i)

\* the lower-case letter of each upper-case letter
LowerCaseOf ==
    [c \in {CharAt(UpperCaseLetters, i) : i \in 1..26} |->
        CharAt(LowerCaseLetters, CHOOSE i \in 1..26 : CharAt(UpperCaseLetters, i) = c)]

\* String.prototype.toLowerCase on one character (ASCII range)
LowerChar(c) == IF c \in DOMAIN LowerCaseOf THEN LowerCaseOf[c] ELSE c

RECURSIVE toLowerCase(_)
toLowerCase(s) ==
    IF s = "" THEN "" ELSE LowerChar(CharAt(s, 1)) \o toLowerCase(Tail(s))

\* String.prototype.includes: plain substring containment
includes(s, k) ==
    \E i \in 0..(Len(s) - Len(k)) : SubSeq(s, i + 1, i + Len(k)) = k

WhiteSpace == {" ", "\t", "\n", "\r", "\f"}

RECURSIVE trimStart(_)
trimStart(s) ==
    IF s = "" THEN ""
    ELSE IF CharAt(s, 1) \in WhiteSpace THEN trimStart(Tail(s)) ELSE s

RECURSIVE trimEnd(_)
trimEnd(s) ==
    IF s = "" THEN ""
    ELSE IF CharAt(s, Len(s)) \in WhiteSpace
         THEN trimEnd(SubSeq(s, 1, Len(s) - 1)) ELSE s

\* String.prototype.trim
trim(s) == trimEnd(trimStart(s))

RECURSIVE join(_, _)
\* Array.prototype.join
join(parts, sep) ==
    IF Len(parts) = 0 THEN ""
    ELSE IF Len(parts) = 1 THEN parts[1]
    ELSE parts[1] \o sep \o join(Tail(parts), sep)

(***************************************************************************)
(* JSON values as the handler sees them after request.json().              *)
(***************************************************************************)
JsonString(s) == [type |-> "string", value |-> s]

JsonNumber(text) == [type |-> "number", value |-> text]

JsonNull == [type |-> "null", value |-> "null"]

Undefined == [type |-> "undefined", value |-> "undefined"]

\* typeof v
typeof(v) == IF v.type = "null" THEN "object" ELSE v.type

\* payload[field] on a parsed object: a property that is not there reads undefined
Get(payload, field) ==
    IF field \in DOMAIN payload THEN payload[field] ELSE Undefined

\* `${v}` in a template literal
TemplateString(v) == v.value

\* v || fallback : the empty string, undefined, null and 0 are falsy
Truthy(v) ==
    /\ v.type \notin {"undefined", "null"}
    /\ ~(v.type = "string" /\ v.value = "")
    /\ ~(v.type = "number" /\ v.value = "0")

(***************************************************************************)
(* The module-level tables, as written in the source.                      *)
(***************************************************************************)
requiredFields ==
    <<"productName", "productSummary", "audience", "problem", "differentiation",
      "pricing", "brandVoice", "primaryGoal", "successMetric", "launchHorizon">>

personaArchetypes0 ==
    [builder |->
        [persona |-> "Hands-on Builder",
         needs |-> <<"Rapid experimentation sandbox",
                     "Composable APIs with excellent docs",
                     "Signals that surface product-market fit faster">>,
         triggers |-> <<"Dev-first onboarding with minimal friction",
                        "Proof of velocity -- shipping hours, not weeks",
                        "Community where peers share playbooks">>,
         objections |-> <<"Vendor lock-in or forced workflow changes",
                          "Unclear pricing scale for high usage",
                          "Slow support response for technical blockers">>],
     operator |->
        [persona |-> "Growth Operator",
         needs |-> <<"Clarity on ROI and payback period",
                     "Confidence in data quality and governance",
                     "Frictionless collaboration with GTM teams">>,
         triggers |-> <<"Success stories with hard revenue numbers",
                        "Live dashboards with attribution guardrails",
                        "Roadmap stability and SOC2/ISO compliance">>,
         objections |-> <<"Hidden costs in seats or limits",
                          "Unproven integrations into current stack",
                          "Concern about AI hallucinations in production">>],
     executive |->
        [persona |-> "Strategic Executive",
         needs |-> <<"Differentiated POV on market category",
                     "Risk mitigation and governance controls",
                     "Evidence of defensible moats">>,
         triggers |-> <<"Executive briefings benchmarking competitors",
                        "Vision decks articulating future roadmap",
                        "References from marquee customers">>,
         objections |-> <<"Unclear compliance posture",
                          "Limited enterprise support coverage",
                          "High switching cost from incumbents">>]]

channelPlays0 ==
    << [channel |-> "Founders' Narrative",
        role |-> "Earn trust with a strong POV and demonstrate the vision behind the product.",
        cadences |-> <<"Bi-weekly build-in-public threads across LinkedIn + X",
                       "Monthly founder letter unpacking roadmap signals",
                       "Quarterly AMAs with flagship design partners">>,
        kpis |-> <<"Followers growth", "Thought leadership mentions", "Inbound demos">>],
       [channel |-> "Product-Led Motion",
        role |-> "Drive trials and activation through immersive product experiences.",
        cadences |-> <<"Interactive demo workspace refreshed every sprint",
                       "Onboarding drip sequence tailored to role & use case",
                       "In-app nudges calibrated to aha moments & milestones">>,
        kpis |-> <<"Signup-to-activation rate", "Time-to-first-value", "Feature adoption">>],
       [channel |-> "Category Community",
        role |-> "Mobilize believers and nurture advocacy loops.",
        cadences |-> <<"Weekly synthetic benchmarks distilled from anonymized data",
                       "Fortnightly roundtables with lighthouse customers",
                       "Slack/Discord crew with office hours from product & GTM leaders">>,
        kpis |-> <<"Net promoter score", "Community engagement", "Referral sourced pipeline">>],
       [channel |-> "Strategic Alliances",
        role |-> "Leverage partner ecosystems to tap into qualified demand.",
        cadences |-> <<"Co-marketing webinars aligned to partner roadmaps",
                       "Solution briefings for partner SEs + AEs",
                       "Joint ROI calculators highlighting combined value">>,
        kpis |-> <<"Partner influenced ARR", "Partner-sourced opportunities", "Attach rate">>] >>

growthBacklog0 ==
    << [title |-> "Persona-Calibrated Onboarding Concierge",
        hypothesis |-> "If we detect the user's core job-to-be-done during onboarding, we can surface relevant templates and increase activation.",
        playbook |-> <<"Create role-specific welcome flows with scripted prompts",
                       "Instrument micro-surveys tied to first-session actions",
                       "Route to nurture tracks featuring proof tied to persona needs">>,
        measure |-> "Activation rate within first 7 days segmented by persona."],
       [title |-> "Narrative Velocity Series",
        hypothesis |-> "Launching a serialized content program that dramatizes customer wins will increase inbound demo requests.",
        playbook |-> <<"Produce monthly hero stories with metrics-oriented infographics",
                       "Distribute across LinkedIn, newsletter, and industry communities",
                       "Add CTA to book a strategy workshop with solution consultants">>,
        measure |-> "Demo volume, win rate, and sourced ARR from the campaign."],
       [title |-> "AI Pilot Sprint Rooms",
        hypothesis |-> "Facilitated sprints with success blueprints will collapse evaluation cycles for mid-market teams.",
        playbook |-> <<"Spin up a Miro/FigJam board capturing sprint agenda and KPIs",
                       "Bundle onboarding docs, governance checklist, and ROI calculator",
                       "Assign a solutions engineer to co-build the first workflow">>,
        measure |-> "Pilot-to-paid conversion and speed-to-contract."] >>

measurementMatrix0 ==
    << [metric |-> "Activation Velocity",
        target |-> ">= 45% of signups reach aha moment within 72 hours",
        instrumentation |-> "Product analytics funnel with persona & channel tags",
        cadence |-> "Reviewed twice weekly with product + growth standup"],
       [metric |-> "Pipeline Momentum",
        target |-> ">= 30% of SQL pipeline sourced from hero channels",
        instrumentation |-> "CRM multi-touch attribution dashboard",
        cadence |-> "Reported weekly to revenue leadership"],
       [metric |-> "Expansion Signal",
        target |-> ">= 20% accounts adopt 2+ advanced workflows in 60 days",
        instrumentation |-> "Usage cohort reports & health scoring in CS CRM",
        cadence |-> "Monthly lifecycle business review"],
       [metric |-> "Advocacy Flywheel",
        target |-> "10 new public testimonials or case studies per quarter",
        instrumentation |-> "Community tracking sheet + marketing automation tags",
        cadence |-> "Monthly with marketing leadership"] >>

\* the four tables as one value: what a call of the agent reads and leaves behind
Tables(pa, cp, gb, mm) ==
    [personaArchetypes |-> pa, channelPlays |-> cp,
     growthBacklog |-> gb, measurementMatrix |-> mm]

Tables0 == Tables(personaArchetypes0, channelPlays0, growthBacklog0, measurementMatrix0)

(***************************************************************************)
(* The selection functions of the agent.                                   *)
(***************************************************************************)
\* derivePersonas matching on the texts as typed, without lower-casing them
derivePersonas_caseSensitive(archetypes, audience, primaryGoal) ==
    LET m1 == IF includes(audience, "founder") \/ includes(audience, "developer")
              THEN <<archetypes.builder>> ELSE <<>>
        m2 == IF \/ includes(audience, "marketing")
                 \/ includes(audience, "growth")
                 \/ includes(primaryGoal, "pipeline")
              THEN Append(m1, archetypes.operator) ELSE m1
        m3 == IF \/ includes(audience, "executive")
                 \/ includes(audience, "c-suite")
                 \/ includes(primaryGoal, "enterprise")
              THEN Append(m2, archetypes.executive) ELSE m2
    IN  IF Len(m3) = 0 THEN Append(m3, archetypes.operator) ELSE m3

\* derivePersonas pushing the Operator default without the length test
derivePersonas_alwaysDefault(archetypes, audience, primaryGoal) ==
    LET lowerAudience == toLowerCase(audience)
        lowerGoal == toLowerCase(primaryGoal)
        m1 == IF includes(lowerAudience, "founder") \/ includes(lowerAudience, "developer")
              THEN <<archetypes.builder>> ELSE <<>>
        m2 == IF \/ includes(lowerAudience, "marketing")
                 \/ includes(lowerAudience, "growth")
                 \/ includes(lowerGoal, "pipeline")
              THEN Append(m1, archetypes.operator) ELSE m1
        m3 == IF \/ includes(lowerAudience, "executive")
                 \/ includes(lowerAudience, "c-suite")
                 \/ includes(lowerGoal, "enterprise")
              THEN Append(m2, archetypes.executive) ELSE m2
    IN  Append(m3, archetypes.operator)

\* derivePersonas(audience, primaryGoal), reading personaArchetypes
derivePersonas(archetypes, audience, primaryGoal) ==
    LET lowerAudience == toLowerCase(audience)
        lowerGoal == toLowerCase(primaryGoal)
        m1 == IF includes(lowerAudience, "founder") \/ includes(lowerAudience, "developer")
              THEN <<archetypes.builder>> ELSE <<>>
        m2 == IF \/ includes(lowerAudience, "marketing")
                 \/ includes(lowerAudience, "growth")
                 \/ includes(lowerGoal, "pipeline")
              THEN Append(m1, archetypes.operator) ELSE m1
        m3 == IF \/ includes(lowerAudience, "executive")
                 \/ includes(lowerAudience, "c-suite")
                 \/ includes(lowerGoal, "enterprise")
              THEN Append(m2, archetypes.executive) ELSE m2
    IN  IF Len(m3) = 0 THEN Append(m3, archetypes.operator) ELSE m3

\* craftSummary with the goal inserted as typed, not lower-cased
craftSummary_goalVerbatim(payload) ==
    LET brandVoice == Get(payload, "brandVoice")
        tone == IF Truthy(brandVoice) THEN brandVoice ELSE JsonString("authoritative")
    IN  join(<<
          "Launch mission: " \o TemplateString(Get(payload, "productName")) \o " will "
              \o Get(payload, "primaryGoal").value \o ".",
          "We anchor messaging around the core product promise -- "
              \o TemplateString(Get(payload, "productSummary")) \o ".",
          "Tone must stay " \o toLowerCase(tone.value)
              \o " while dramatizing the problem: "
              \o TemplateString(Get(payload, "problem")) \o ".",
          "We lead with proof on how we "
              \o toLowerCase(Get(payload, "differentiation").value)
              \o " and reinforce the pricing model ("
              \o TemplateString(Get(payload, "pricing")) \o ").",
          "Initial focus: orchestrate a "
              \o toLowerCase(Get(payload, "launchHorizon").value)
              \o " launch train that blends product-led motions with strategic storytelling."
        >>, " ")

\* craftSummary closing the mission sentence with the success metric
craftSummary_withMetric(payload) ==
    LET brandVoice == Get(payload, "brandVoice")
        tone == IF Truthy(brandVoice) THEN brandVoice ELSE JsonString("authoritative")
    IN  join(<<
          "Launch mission: " \o TemplateString(Get(payload, "productName")) \o " will "
              \o toLowerCase(Get(payload, "primaryGoal").value)
              \o " (" \o TemplateString(Get(payload, "successMetric")) \o ").",
          "We anchor messaging around the core product promise -- "
              \o TemplateString(Get(payload, "productSummary")) \o ".",
          "Tone must stay " \o toLowerCase(tone.value)
              \o " while dramatizing the problem: "
              \o TemplateString(Get(payload, "problem")) \o ".",
          "We lead with proof on how we "
              \o toLowerCase(Get(payload, "differentiation").value)
              \o " and reinforce the pricing model ("
              \o TemplateString(Get(payload, "pricing")) \o ").",
          "Initial focus: orchestrate a "
              \o toLowerCase(Get(payload, "launchHorizon").value)
              \o " launch train that blends product-led motions with strategic storytelling."
        >>, " ")

\* craftSummary(payload)
craftSummary(payload) ==
    LET brandVoice == Get(payload, "brandVoice")
        tone == IF Truthy(brandVoice) THEN brandVoice ELSE JsonString("authoritative")
    IN  join(<<
          "Launch mission: " \o TemplateString(Get(payload, "productName")) \o " will "
              \o toLowerCase(Get(payload, "primaryGoal").value) \o ".",
          "We anchor messaging around the core product promise -- "
              \o TemplateString(Get(payload, "productSummary")) \o ".",
          "Tone must stay " \o toLowerCase(tone.value)
              \o " while dramatizing the problem: "
              \o TemplateString(Get(payload, "problem")) \o ".",
          "We lead with proof on how we "
              \o toLowerCase(Get(payload, "differentiation").value)
              \o " and reinforce the pricing model ("
              \o TemplateString(Get(payload, "pricing")) \o ").",
          "Initial focus: orchestrate a "
              \o toLowerCase(Get(payload, "launchHorizon").value)
              \o " launch train that blends product-led motions with strategic storytelling."
        >>, " ")

\* the timeline with the "quarter" test ahead of the "30"/"month" test
timeline_quarterFirst(horizon) ==
    IF includes(horizon, "quarter")
    THEN <<"Month 0-1", "Month 2", "Month 3", "Month 4+">>
    ELSE IF includes(horizon, "30") \/ includes(horizon, "month")
         THEN <<"Week 0-2", "Week 3-4", "Week 5-8">>
         ELSE <<"Phase 1", "Phase 2", "Phase 3">>

\* the timeline chosen at the head of shapeLaunchPhases
timeline(horizon) ==
    IF includes(horizon, "30") \/ includes(horizon, "month")
    THEN <<"Week 0-2", "Week 3-4", "Week 5-8">>
    ELSE IF includes(horizon, "quarter")
         THEN <<"Month 0-1", "Month 2", "Month 3", "Month 4+">>
         ELSE <<"Phase 1", "Phase 2", "Phase 3">>

basePhases ==
    << [name |-> "Ignition",
        focus |-> "Pressure-test messaging, mobilize advocates, and orchestrate early storytelling assets.",
        primaryPlays |-> <<"Calibrate positioning with lighthouse customers",
                           "Ship teaser content + founder narrative threads",
                           "Enable revenue teams with objection handling scripts">>,
        proofPoints |-> <<"Vision deck with future-state architecture",
                          "Design partner quotes and usage metrics">>],
       [name |-> "Amplify",
        focus |-> "Scale demand generation with product-led growth loops and segment-specific campaigns.",
        primaryPlays |-> <<"Automate nurture sequences triggered by product signals",
                           "Launch category POV report featuring benchmark data",
                           "Activate partners, communities, and paid acquisition pilots">>,
        proofPoints |-> <<"Interactive ROI calculator tied to persona outcomes",
                          "Video walkthroughs showing aha moments">>],
       [name |-> "Convert",
        focus |-> "Collapse sales cycles, drive multi-threaded expansions, and reinforce social proof flywheel.",
        primaryPlays |-> <<"Offer guided pilot sprints with solution engineers",
                           "Publish customer spotlight + quantifiable wins",
                           "Deploy executive workshops on AI governance and ROI">>,
        proofPoints |-> <<"Case studies segmented by industry",
                          "Stack diagrams with integration depth">>] >>

scalePhase ==
    [name |-> "Scale",
     focus |-> "Standardize playbooks, automate renewals, and unlock new monetization levers.",
     primaryPlays |-> <<"Launch referral program with usage-based incentives",
                        "Spin up user conference or digital summit",
                        "Roll out roadmap updates with customer advisory boards">>,
     proofPoints |-> <<"Land & expand dashboard with cohort analysis",
                       "Public roadmap + changelog momentum">>]

\* shapeLaunchPhases indexing the timeline one place too far (timeline[index + 1])
shapeLaunchPhases_offByOne(payload) ==
    LET horizon == toLowerCase(Get(payload, "launchHorizon").value)
        labels == timeline(horizon)
        phases == IF Len(labels) > Len(basePhases)
                  THEN Append(basePhases, scalePhase) ELSE basePhases
    IN  [index \in 1..Len(phases) |->
            [name |-> phases[index].name,
             focus |-> phases[index].focus,
             primaryPlays |-> phases[index].primaryPlays,
             proofPoints |-> phases[index].proofPoints,
             duration |-> IF index + 1 <= Len(labels) THEN labels[index + 1]
                          ELSE labels[Len(labels)]]]

\* shapeLaunchPhases pushing the Scale phase whatever the timeline's length
shapeLaunchPhases_alwaysScale(payload) ==
    LET horizon == toLowerCase(Get(payload, "launchHorizon").value)
        labels == timeline(horizon)
        phases == Append(basePhases, scalePhase)
    IN  [index \in 1..Len(phases) |->
            [name |-> phases[index].name,
             focus |-> phases[index].focus,
             primaryPlays |-> phases[index].primaryPlays,
             proofPoints |-> phases[index].proofPoints,
             duration |-> IF index <= Len(labels) THEN labels[index]
                          ELSE labels[Len(labels)]]]

\* shapeLaunchPhases(payload)
shapeLaunchPhases(payload) ==
    LET horizon == toLowerCase(Get(payload, "launchHorizon").value)
        labels == timeline(horizon)
        phases == IF Len(labels) > Len(basePhases)
                  THEN Append(basePhases, scalePhase) ELSE basePhases
    IN  [index \in 1..Len(phases) |->
            [name |-> phases[index].name,
             focus |-> phases[index].focus,
             primaryPlays |-> phases[index].primaryPlays,
             proofPoints |-> phases[index].proofPoints,
             duration |-> IF index <= Len(labels) THEN labels[index]
                          ELSE labels[Len(labels)]]]

builderPillar ==
    [pillar |-> "Builder Velocity",
     narrative |-> "Empower builders to ship AI workflows safely, fast.",
     contentAngles |-> <<"Stack diagrams explaining architecture choices",
                         "Build-in-public showcases of rapid iteration",
                         "Technical AMAs featuring product engineering">>,
     proofAssets |-> <<"Starter kits & templates library",
                       "Reference implementations in GitHub",
                       "Latency and uptime dashboards">>]

\* the three pillars tailorMessaging starts from
basePillars(payload) ==
    LET positioning == toLowerCase(Get(payload, "differentiation").value)
        problem == toLowerCase(Get(payload, "problem").value)
    IN  << [pillar |-> "Operational Precision",
            narrative |-> "Automate the manual grind behind " \o problem
                          \o " with orchestrated AI workflows.",
            contentAngles |-> <<"Before/after narratives illustrating time saved",
                                "Deep dives on automation safeguards and governance",
                                "Interactive dashboards revealing hidden bottlenecks">>,
            proofAssets |-> <<"Workflow teardown webinar",
                              "Usage dashboards with leading indicators",
                              "Checklist on AI guardrails and controls">>],
           [pillar |-> "Revenue Impact",
            narrative |-> "Translate " \o TemplateString(Get(payload, "productName"))
                          \o "'s intelligence into measurable revenue outcomes.",
            contentAngles |-> <<"ROI case studies segmented by vertical",
                                "Benchmarks sourced from aggregated product data",
                                "Tools that forecast impact on core KPIs">>,
            proofAssets |-> <<"Outcome calculator with persona presets",
                              "Slide library with quantifiable wins",
                              "Customer testimonials with hard metrics">>],
           [pillar |-> "Differentiated Advantage",
            narrative |-> "Show how we " \o positioning
                          \o " so customers stay ahead of rivals.",
            contentAngles |-> <<"Competitive teardown with objection counters",
                                "Visionary roadmap articulating defensibility",
                                "Partner stories illustrating ecosystem fit">>,
            proofAssets |-> <<"Comparison matrix with feature depth",
                              "Executive briefing on category POV",
                              "Joint announcements with strategic partners">>] >>

\* tailorMessaging testing for the archetype key instead of the persona name
tailorMessaging_wrongName(payload, personas) ==
    IF \E i \in 1..Len(personas) : personas[i].persona = "builder"
    THEN Append(basePillars(payload), builderPillar)
    ELSE basePillars(payload)

\* tailorMessaging(payload, personas)
tailorMessaging(payload, personas) ==
    IF \E i \in 1..Len(personas) : personas[i].persona = "Hands-on Builder"
    THEN Append(basePillars(payload), builderPillar)
    ELSE basePillars(payload)

coSellingClause == " Prioritize co-selling motions for revenue acceleration."

onboardingClause == " Double down on aha moments and guided onboarding."

\* the callback with the second rule chained as else-if to the first
adaptChannel_elseIf(channel, goal) ==
    IF includes(goal, "pipeline") \/ includes(goal, "revenue")
    THEN IF channel.channel = "Strategic Alliances"
         THEN [channel EXCEPT !.role = channel.role \o coSellingClause]
         ELSE channel
    ELSE IF /\ includes(goal, "adoption") \/ includes(goal, "activation")
            /\ channel.channel = "Product-Led Motion"
         THEN [channel EXCEPT !.role = channel.role \o onboardingClause]
         ELSE channel

\* the callback with the clause in place of the role instead of after it
adaptChannel_replace(channel, goal) ==
    IF /\ includes(goal, "pipeline") \/ includes(goal, "revenue")
       /\ channel.channel = "Strategic Alliances"
    THEN [channel EXCEPT !.role = coSellingClause]
    ELSE IF /\ includes(goal, "adoption") \/ includes(goal, "activation")
            /\ channel.channel = "Product-Led Motion"
         THEN [channel EXCEPT !.role = onboardingClause]
         ELSE channel

\* the callback of channelPlays.map in adaptChannelStrategy
adaptChannel(channel, goal) ==
    IF /\ includes(goal, "pipeline") \/ includes(goal, "revenue")
       /\ channel.channel = "Strategic Alliances"
    THEN [channel EXCEPT !.role = channel.role \o coSellingClause]
    ELSE IF /\ includes(goal, "adoption") \/ includes(goal, "activation")
            /\ channel.channel = "Product-Led Motion"
         THEN [channel EXCEPT !.role = channel.role \o onboardingClause]
         ELSE channel

\* adaptChannelStrategy assigning channel.role in place instead of spreading
\* into a new object: the table keeps the appended clause
adaptChannelStrategy_inPlace(plays, primaryGoal) ==
    LET goal == toLowerCase(primaryGoal)
        mapped == [i \in 1..Len(plays) |-> adaptChannel(plays[i], goal)]
    IN  [value |-> SubSeq(mapped, 1, IF Len(mapped) < 4 THEN Len(mapped) ELSE 4),
         channelPlays |-> mapped]

\* adaptChannelStrategy(primaryGoal), reading channelPlays.  map builds a new
\* array and the spread a new object, so the table is left as it was:
\* value is what the function returns, channelPlays the table afterwards.
adaptChannelStrategy(plays, primaryGoal) ==
    LET goal == toLowerCase(primaryGoal)
        mapped == [i \in 1..Len(plays) |-> adaptChannel(plays[i], goal)]
    IN  [value |-> SubSeq(mapped, 1, IF Len(mapped) < 4 THEN Len(mapped) ELSE 4),
         channelPlays |-> plays]


(***************************************************************************)
(* runGoToMarketAgent.                                                     *)
(***************************************************************************)
NoPlan == [executiveSummary |-> "none"]

\* a method call on a value that is not a string throws a TypeError:
\* toLowerCase is called on audience, primaryGoal, differentiation, problem,
\* launchHorizon and on (brandVoice || "authoritative")
agentThrows(payload) ==
    \/ \E f \in {"audience", "primaryGoal", "differentiation", "problem", "launchHorizon"} :
          typeof(Get(payload, f)) # "string"
    \/ /\ Truthy(Get(payload, "brandVoice"))
       /\ typeof(Get(payload, "brandVoice")) # "string"

\* personas.map((p) => ({ persona, coreNeeds, adoptionTriggers, objections }))
personaInsight(p) ==
    [persona |-> p.persona, coreNeeds |-> p.needs,
     adoptionTriggers |-> p.triggers, objections |-> p.objections]

\* Array.prototype.reverse: turns the array round in place and returns it
Reverse(seq) == [i \in 1..Len(seq) |-> seq[Len(seq) + 1 - i]]

\* runGoToMarketAgent returning measurementMatrix.slice(0, 3), the length of
\* the experiment list
runGoToMarketAgent_threeMetrics(tables, payload) ==
    IF agentThrows(payload)
    THEN [threw |-> TRUE, plan |-> NoPlan, tables |-> tables]
    ELSE
      LET audience == Get(payload, "audience").value
          primaryGoal == Get(payload, "primaryGoal").value
          personas == derivePersonas(tables.personaArchetypes, audience, primaryGoal)
          channels == adaptChannelStrategy(tables.channelPlays, primaryGoal)
      IN  [threw |-> FALSE,
           plan |->
             [executiveSummary |-> craftSummary(payload),
              launchPhases |-> shapeLaunchPhases(payload),
              personaInsights |-> [i \in 1..Len(personas) |-> personaInsight(personas[i])],
              messagingPillars |-> tailorMessaging(payload, personas),
              channelStrategy |-> channels.value,
              growthExperiments |-> tables.growthBacklog,
              measurementFramework |-> SubSeq(tables.measurementMatrix, 1, 3)],
           tables |-> [tables EXCEPT !.channelPlays = channels.channelPlays]]

\* runGoToMarketAgent returning growthBacklog.reverse(), which reorders the
\* shared table on every call
runGoToMarketAgent_reverse(tables, payload) ==
    IF agentThrows(payload)
    THEN [threw |-> TRUE, plan |-> NoPlan, tables |-> tables]
    ELSE
      LET audience == Get(payload, "audience").value
          primaryGoal == Get(payload, "primaryGoal").value
          personas == derivePersonas(tables.personaArchetypes, audience, primaryGoal)
          channels == adaptChannelStrategy(tables.channelPlays, primaryGoal)
      IN  [threw |-> FALSE,
           plan |->
             [executiveSummary |-> craftSummary(payload),
              launchPhases |-> shapeLaunchPhases(payload),
              personaInsights |-> [i \in 1..Len(personas) |-> personaInsight(personas[i])],
              messagingPillars |-> tailorMessaging(payload, personas),
              channelStrategy |-> channels.value,
              growthExperiments |-> Reverse(tables.growthBacklog),
              measurementFramework |-> tables.measurementMatrix],
           tables |-> [tables EXCEPT !.channelPlays = channels.channelPlays,
                              !.growthBacklog = Reverse(tables.growthBacklog)]]

\* runGoToMarketAgent(payload) run on the tables as they are: threw tells
\* whether it threw, plan is the value it returns, tables the tables afterwards
runGoToMarketAgent(tables, payload) ==
    IF agentThrows(payload)
    THEN [threw |-> TRUE, plan |-> NoPlan, tables |-> tables]
    ELSE
      LET audience == Get(payload, "audience").value
          primaryGoal == Get(payload, "primaryGoal").value
          personas == derivePersonas(tables.personaArchetypes, audience, primaryGoal)
          channels == adaptChannelStrategy(tables.channelPlays, primaryGoal)
      IN  [threw |-> FALSE,
           plan |->
             [executiveSummary |-> craftSummary(payload),
              launchPhases |-> shapeLaunchPhases(payload),
              personaInsights |-> [i \in 1..Len(personas) |-> personaInsight(personas[i])],
              messagingPillars |-> tailorMessaging(payload, personas),
              channelStrategy |-> channels.value,
              growthExperiments |-> tables.growthBacklog,
              measurementFramework |-> tables.measurementMatrix],
           tables |-> [tables EXCEPT !.channelPlays = channels.channelPlays]]

(***************************************************************************)
(* The route handler.                                                      *)
(***************************************************************************)
\* isMissing without the trim: a blank string counts as present
isMissing_noTrim(payload, field) ==
    LET value == Get(payload, field)
    IN  typeof(value) # "string" \/ Len(value.value) = 0

\* isMissing with the type test inverted into a guard: only blank strings are
\* missing, an absent or non-string value counts as present
isMissing_blankOnly(payload, field) ==
    LET value == Get(payload, field)
    IN  typeof(value) = "string" /\ Len(trim(value.value)) = 0

\* the predicate of requiredFields.filter
isMissing(payload, field) ==
    LET value == Get(payload, field)
    IN  typeof(value) # "string" \/ Len(trim(value.value)) = 0

\* const missing = requiredFields.filter(...)
missingFields(payload) ==
    SelectSeq(requiredFields, LAMBDA field : isMissing(payload, field))

Rejected == [kind |-> "rejected", status |-> 500, json |-> <<>>]

ValidationError(missing) ==
    [kind |-> "validation_error", status |-> 400,
     json |-> [error |-> "validation_error",
               message |-> "Missing required fields.",
               missing |-> missing]]

PlanResponse(plan) == [kind |-> "plan", status |-> 200, json |-> plan]

\* POST from the point where the awaited request.json() settles, with b what
\* it settled to: response is what the handler answers (Rejected when the
\* handler throws), calls the calls of runGoToMarketAgent it made (argument
\* and outcome), tables the tables afterwards
POST(tables, b) ==
    IF b.kind \in {"invalid", "null"}
    THEN [response |-> Rejected, calls |-> <<>>, tables |-> tables]
    ELSE
      LET payload == b.fields
          missing == missingFields(payload)
      IN  IF Len(missing) # 0
          THEN [response |-> ValidationError(missing), calls |-> <<>>, tables |-> tables]
          ELSE LET outcome == runGoToMarketAgent(tables, payload)
               IN  [response |-> IF outcome.threw THEN Rejected
                                 ELSE PlanResponse(outcome.plan),
                    calls |-> <<[payload |-> payload, threw |-> outcome.threw,
                                 plan |-> outcome.plan]>>,
                    tables |-> outcome.tables]


(***************************************************************************)
(* Inputs.                                                                 *)
(***************************************************************************)
\* a filled-in form: the client's defaultState with the free-text fields filled
Payload(audience, primaryGoal, launchHorizon) ==
    [productName |-> JsonString("Signal AI"),
     productSummary |-> JsonString("AI copilots for revenue teams"),
     audience |-> JsonString(audience),
     problem |-> JsonString("Manual Reporting"),
     differentiation |-> JsonString("Automate Insights"),
     pricing |-> JsonString("Usage-based"),
     brandVoice |-> JsonString("Confident, strategic"),
     primaryGoal |-> JsonString(primaryGoal),
     successMetric |-> JsonString("50 SQLs in 90 days"),
     launchHorizon |-> JsonString(launchHorizon)]

\* the object without the properties in S
Without(payload, S) == [f \in (DOMAIN payload) \ S |-> payload[f]]

\* the object with property f set to v
With(payload, f, v) == [g \in (DOMAIN payload) \cup {f} |-> IF g = f THEN v ELSE payload[g]]

JsonObject(fields) == [kind |-> "object", fields |-> fields]

PipelinePayload == Payload("Indie developer founders", "Generate qualified pipeline", "90-day orchestrated launch")

ActivationPayload == Payload("Marketing leaders", "Increase activation", "Next Quarter")

UnrelatedPayload == Payload("Enterprising startup", "Build brand awareness", "30-day lightning launch")

BothGoalsPayload == Payload("C-Suite Executives", "Drive Revenue and Adoption", "6-month enterprise motion")

SuccessMetrics == {"50 SQLs in 90 days", "Pipeline: 30 enterprise founders"}

\* the record with the other success metric
OtherMetric(payload) ==
    With(payload, "successMetric",
         JsonString(CHOOSE m \in SuccessMetrics : m # Get(payload, "successMetric").value))

\* request bodies of the concurrent specification
Bodies ==
    { JsonObject(PipelinePayload),
      JsonObject(ActivationPayload),
      JsonObject(UnrelatedPayload),
      JsonObject(BothGoalsPayload),
      JsonObject(With(PipelinePayload, "extra", JsonNumber("7"))),
      JsonObject(OtherMetric(PipelinePayload)),
      JsonObject(Without(PipelinePayload, {"pricing", "brandVoice"})),
      JsonObject(With(With(ActivationPayload, "pricing", JsonString(" \t ")),
                      "brandVoice", JsonNumber("42"))),
      JsonObject(With(With(UnrelatedPayload, "productName", JsonNull),
                      "launchHorizon", JsonString(""))),
      JsonObject(With(Without(BothGoalsPayload, {"audience"}), "problem", JsonString("\n"))),
      JsonObject(<<>>),
      [kind |-> "array", fields |-> <<>>],
      [kind |-> "null", fields |-> <<>>],
      [kind |-> "invalid", fields |-> <<>>] }

Audiences ==
    { "Indie developer founders", "Cofounder-led startups", "Marketing leaders",
      "Growth teams", "C-Suite Executives", "Enterprising startup",
      "Founders, marketing and executive sponsors", "Ops managers" }

Goals ==
    { "Generate qualified pipeline", "Increase activation", "Drive Revenue and Adoption",
      "Win enterprise accounts", "Build brand awareness", "Land Enterprise pipeline",
      "Founder-led growth for developers" }

Horizons ==
    { "30-day lightning launch", "60-day layered rollout", "90-day orchestrated launch",
      "6-month enterprise motion", "Next Quarter", "Quarterly, month by month",
      "Q3 2030 quarter" }

BrandVoices == {"Confident, strategic", "Bold, visionary"}

\* arguments of the direct calls of runGoToMarketAgent
AgentPayloads ==
    { With(With(Payload(a, g, h), "brandVoice", JsonString(v)), "successMetric", JsonString(m)) :
        a \in Audiences, g \in Goals, h \in Horizons, v \in BrandVoices, m \in SuccessMetrics }

NoBody == [kind |-> "none", fields |-> <<>>]

NoResponse == [kind |-> "none", status |-> 0, json |-> <<>>]

NoCall == [called |-> FALSE, payload |-> <<>>, threw |-> FALSE, plan |-> NoPlan]

(***************************************************************************)
(* The form workspace (AgentWorkspace).                                    *)
(***************************************************************************)
defaultState ==
    [productName |-> "",
     productSummary |-> "",
     audience |-> "",
     problem |-> "",
     differentiation |-> "",
     pricing |-> "",
     brandVoice |-> "Confident, strategic",
     primaryGoal |-> "Generate qualified pipeline",
     successMetric |-> "50 SQLs in 90 days",
     launchHorizon |-> "90-day orchestrated launch"]

\* what the user types or selects in each field
FormValues ==
    [productName |-> {"", "  ", "Signal AI"},
     productSummary |-> {"", "AI copilots for revenue teams"},
     audience |-> {"", "Indie developer founders"},
     problem |-> {"", "Manual Reporting"},
     differentiation |-> {"", "Automate Insights"},
     pricing |-> {"", "Usage-based"},
     launchHorizon |-> {"90-day orchestrated launch", "30-day lightning launch"}]

NoSubmit == [pc |-> "idle", payload |-> <<>>, response |-> NoResponse]

Submits == 1..MaxSubmits

NoError == [set |-> FALSE, message |-> ""]

NoResult == [set |-> FALSE, data |-> NoPlan]

InitWorkspace ==
    /\ form = defaultState
    /\ loading = FALSE
    /\ error = NoError
    /\ result = NoResult
    /\ submits = [h \in Submits |-> NoSubmit]
    /\ lastOutcome = "none"

\* isSubmitDisabled without the loading term
isSubmitDisabled_noLoading(f, isLoading) ==
    \/ Len(trim(f.productName)) = 0
    \/ Len(trim(f.productSummary)) = 0

\* the isSubmitDisabled memo: the disabled attribute of the submit button
isSubmitDisabled(f, isLoading) ==
    \/ Len(trim(f.productName)) = 0
    \/ Len(trim(f.productSummary)) = 0
    \/ isLoading

\* JSON.stringify(form) as the server parses it
formBody(f) == JsonObject([field \in DOMAIN f |-> JsonString(f[field])])

\* responses that do not come from the route handler: a proxy's HTML error
\* page and a proxy's JSON error object without a message
GatewayResponses ==
    { [kind |-> "gateway_html", status |-> 502, json |-> <<>>],
      [kind |-> "gateway_json", status |-> 503, json |-> <<>>] }

\* response.ok
ok(resp) == resp.status \in 200..299

\* whether response.json() resolves: an unhandled rejection of the route
\* handler and an HTML error page have no JSON body
hasJsonBody(resp) == resp.kind \notin {"rejected", "gateway_html"}

\* body?.message ?? "Failed to generate plan."
errorMessage(resp) ==
    IF resp.kind = "validation_error" THEN resp.json.message
    ELSE "Failed to generate plan."

\* the state after the try/catch/finally of handleSubmit settles on resp:
\* setResult(data) on an ok response; setError and setResult(null) on a
\* non-ok response or a rejected response.json(); setLoading(false) always
settleSubmit(resp, curError, curResult) ==
    IF ~hasJsonBody(resp)
    THEN [error |-> [set |-> TRUE, message |-> "Unexpected token"],
          result |-> NoResult, loading |-> FALSE]
    ELSE IF ~ok(resp)
         THEN [error |-> [set |-> TRUE, message |-> errorMessage(resp)],
               result |-> NoResult, loading |-> FALSE]
         ELSE [error |-> curError,
               result |-> [set |-> TRUE, data |-> resp.json], loading |-> FALSE]

(***************************************************************************)
(* State machine.                                                          *)
(***************************************************************************)
Init ==
    /\ personaArchetypes = personaArchetypes0
    /\ channelPlays = channelPlays0
    /\ growthBacklog = growthBacklog0
    /\ measurementMatrix = measurementMatrix0
    /\ pc = [r \in Requests |-> "idle"]
    /\ body = [r \in Requests |-> NoBody]
    /\ response = [r \in Requests |-> NoResponse]
    /\ calls = [r \in Requests |-> <<>>]
    /\ lastCall = NoCall
    /\ InitWorkspace

CurrentTables == Tables(personaArchetypes, channelPlays, growthBacklog, measurementMatrix)

SetTables(tables) ==
    /\ personaArchetypes' = tables.personaArchetypes
    /\ channelPlays' = tables.channelPlays
    /\ growthBacklog' = tables.growthBacklog
    /\ measurementMatrix' = tables.measurementMatrix

\* a request arrives: POST runs up to the await of request.json()
PostStart(r, b) ==
    /\ pc[r] = "idle"
    /\ pc' = [pc EXCEPT ![r] = "awaiting"]
    /\ body' = [body EXCEPT ![r] = b]
    /\ UNCHANGED <<tableVars, response, calls, lastCall, workspaceVars>>

\* request.json() settles: the rest of POST runs without suspending
PostResume(r) ==
    /\ pc[r] = "awaiting"
    /\ LET outcome == POST(CurrentTables, body[r])
       IN  /\ response' = [response EXCEPT ![r] = outcome.response]
           /\ calls' = [calls EXCEPT ![r] = outcome.calls]
           /\ SetTables(outcome.tables)
    /\ pc' = [pc EXCEPT ![r] = "done"]
    /\ UNCHANGED <<body, lastCall, workspaceVars>>

\* the response is sent and the handler's frame is gone
Deliver(r) ==
    /\ pc[r] = "done"
    /\ pc' = [pc EXCEPT ![r] = "idle"]
    /\ body' = [body EXCEPT ![r] = NoBody]
    /\ response' = [response EXCEPT ![r] = NoResponse]
    /\ calls' = [calls EXCEPT ![r] = <<>>]
    /\ UNCHANGED <<tableVars, lastCall, workspaceVars>>

\* a direct call of the exported runGoToMarketAgent on the record at hand
AgentCall ==
    /\ lastCall.payload # <<>>
    /\ LET outcome == runGoToMarketAgent(CurrentTables, lastCall.payload)
       IN  /\ lastCall' = [called |-> TRUE, payload |-> lastCall.payload,
                           threw |-> outcome.threw, plan |-> outcome.plan]
           /\ SetTables(outcome.tables)
    /\ UNCHANGED <<pc, body, response, calls, workspaceVars>>

Next ==
    \/ \E r \in Requests, b \in Bodies : PostStart(r, b)
    \/ \E r \in Requests : PostResume(r)
    \/ \E r \in Requests : Deliver(r)

Spec == Init /\ [][Next]_vars

\* the agent on its own: the record is drawn at the start, the calls apply it
InitAgent ==
    /\ personaArchetypes = personaArchetypes0
    /\ channelPlays = channelPlays0
    /\ growthBacklog = growthBacklog0
    /\ measurementMatrix = measurementMatrix0
    /\ pc = [r \in Requests |-> "idle"]
    /\ body = [r \in Requests |-> NoBody]
    /\ response = [r \in Requests |-> NoResponse]
    /\ calls = [r \in Requests |-> <<>>]
    /\ lastCall \in {[NoCall EXCEPT !.payload = p] : p \in AgentPayloads}
    /\ InitWorkspace

NextAgent == AgentCall

SpecAgent == InitAgent /\ [][NextAgent]_vars

\* handleChange(field)(event)
handleChange(field, value) ==
    /\ form' = [form EXCEPT ![field] = value]
    /\ UNCHANGED <<tableVars, serverVars, loading, error, result, submits, lastOutcome>>

\* the form is submitted: handleSubmit runs up to the await of fetch
handleSubmit(h) ==
    /\ ~isSubmitDisabled(form, loading)
    /\ submits[h].pc = "idle"
    /\ \A g \in Submits : g < h => submits[g].pc # "idle"
    /\ loading' = TRUE
    /\ error' = NoError
    /\ submits' = [submits EXCEPT ![h] = [pc |-> "fetching", payload |-> formBody(form),
                                          response |-> NoResponse]]
    /\ UNCHANGED <<tableVars, serverVars, form, result, lastOutcome>>

\* fetch resolves with the route handler's response
FetchResolves(h) ==
    /\ submits[h].pc = "fetching"
    /\ LET served == POST(CurrentTables, submits[h].payload)
       IN  /\ submits' = [submits EXCEPT ![h].pc = "parsing", ![h].response = served.response]
           /\ SetTables(served.tables)
    /\ UNCHANGED <<serverVars, form, loading, error, result, lastOutcome>>

\* fetch resolves with a response from something in front of the server
FetchResolvesGateway(h, resp) ==
    /\ submits[h].pc = "fetching"
    /\ submits' = [submits EXCEPT ![h].pc = "parsing", ![h].response = resp]
    /\ UNCHANGED <<tableVars, serverVars, form, loading, error, result, lastOutcome>>

\* fetch rejects (network failure): catch and finally run
FetchRejects(h) ==
    /\ submits[h].pc = "fetching"
    /\ error' = [set |-> TRUE, message |-> "Failed to fetch"]
    /\ result' = NoResult
    /\ loading' = FALSE
    /\ submits' = [submits EXCEPT ![h] = NoSubmit]
    /\ lastOutcome' = "failure"
    /\ UNCHANGED <<tableVars, serverVars, form>>

\* response.json() settles: the rest of handleSubmit runs
JsonSettles(h) ==
    /\ submits[h].pc = "parsing"
    /\ LET after == settleSubmit(submits[h].response, error, result)
       IN  /\ error' = after.error
           /\ result' = after.result
           /\ loading' = after.loading
    /\ lastOutcome' = IF ok(submits[h].response) /\ hasJsonBody(submits[h].response)
                      THEN "success" ELSE "failure"
    /\ submits' = [submits EXCEPT ![h] = NoSubmit]
    /\ UNCHANGED <<tableVars, serverVars, form>>

NextWorkspace ==
    \/ \E field \in DOMAIN FormValues : \E value \in FormValues[field] : handleChange(field, value)
    \/ \E h \in Submits : handleSubmit(h)
    \/ \E h \in Submits : FetchResolves(h)
    \/ \E h \in Submits, resp \in GatewayResponses : FetchResolvesGateway(h, resp)
    \/ \E h \in Submits : FetchRejects(h)
    \/ \E h \in Submits : JsonSettles(h)

\* the workspace with the server behind it
SpecWorkspace == Init /\ [][NextWorkspace]_vars


(***************************************************************************)
(* Properties.                                                             *)
(***************************************************************************)
FieldIndex(f) == CHOOSE i \in 1..Len(requiredFields) : requiredFields[i] = f

RequiredFieldSet == {requiredFields[i] : i \in 1..Len(requiredFields)}

\* a string made of white space only (the empty string included)
Blank(s) == \A i \in 1..Len(s) : CharAt(s, i) \in WhiteSpace

\* the field is absent from the object, not a string, or blank
Defective(fields, f) ==
    \/ f \notin DOMAIN fields
    \/ fields[f].type # "string"
    \/ Blank(fields[f].value)

Answered(r) == pc[r] = "done" /\ body[r].kind = "object"

MissingPricingAndVoice == JsonObject(Without(PipelinePayload, {"pricing", "brandVoice"}))

\* C1: the missing list of a validation_error response holds exactly the
\* required fields that are absent, not a string or blank, each once, in the
\* order of requiredFields; a body missing only pricing and brandVoice is
\* answered with exactly <<"pricing", "brandVoice">>.
C1_MissingListExact ==
    \A r \in Requests :
        (Answered(r) /\ response[r].kind = "validation_error") =>
            LET m == response[r].json.missing
                fields == body[r].fields
            IN  /\ \A i \in 1..Len(m) :
                      m[i] \in RequiredFieldSet /\ Defective(fields, m[i])
                /\ \A f \in RequiredFieldSet :
                      Defective(fields, f) => \E i \in 1..Len(m) : m[i] = f
                /\ \A i, j \in 1..Len(m) :
                      i < j => FieldIndex(m[i]) < FieldIndex(m[j])
                /\ body[r] = MissingPricingAndVoice => m = <<"pricing", "brandVoice">>

\* a validation_error listing a blank string, a non-string and nothing else
C1_Witness ==
    \E r \in Requests :
        /\ Answered(r)
        /\ response[r].kind = "validation_error"
        /\ response[r].json.missing = <<"pricing", "brandVoice">>
        /\ "pricing" \in DOMAIN body[r].fields
        /\ body[r].fields["pricing"].type = "string"

\* C2: an object body with a defective required field is answered with
\* validation_error, status 400, and runGoToMarketAgent is not called; any
\* other object body makes exactly one call, whose plan is the answer; every
\* call is made with ten non-blank strings and returns a plan.
C2_TwoOutcomes ==
    \A r \in Requests :
        /\ Answered(r) =>
              IF \E f \in RequiredFieldSet : Defective(body[r].fields, f)
              THEN /\ response[r].kind = "validation_error"
                   /\ response[r].json.error = "validation_error"
                   /\ response[r].status = 400
                   /\ calls[r] = <<>>
              ELSE /\ Len(calls[r]) = 1
                   /\ calls[r][1].payload = body[r].fields
                   /\ response[r].kind = "plan"
                   /\ response[r].json = calls[r][1].plan
        /\ \A i \in 1..Len(calls[r]) :
              /\ \A f \in RequiredFieldSet : ~Defective(calls[r][i].payload, f)
              /\ ~calls[r][i].threw

\* both outcomes at once: one request refused, one answered with a plan
C2_Witness ==
    \E r1, r2 \in Requests :
        /\ Answered(r1) /\ response[r1].status = 400 /\ calls[r1] = <<>>
        /\ Answered(r2) /\ response[r2].kind = "plan" /\ Len(calls[r2]) = 1

\* C3: two calls of runGoToMarketAgent with the same record return the same
\* plan, whatever was processed before or between them.
C3_Deterministic ==
    \A r1, r2 \in Requests :
        \A i \in 1..Len(calls[r1]), j \in 1..Len(calls[r2]) :
            calls[r1][i].payload = calls[r2][j].payload =>
                /\ calls[r1][i].threw = calls[r2][j].threw
                /\ calls[r1][i].plan = calls[r2][j].plan

\* two handlers that called the agent with the same record
C3_Witness ==
    \E r1, r2 \in Requests :
        /\ r1 # r2
        /\ Len(calls[r1]) = 1 /\ Len(calls[r2]) = 1
        /\ calls[r1][1].payload = calls[r2][1].payload
        /\ ~calls[r1][1].threw


(***************************************************************************)
(* Properties of the agent's selection functions, on direct calls.         *)
(***************************************************************************)
RECURSIVE Contains(_, _)
\* k occurs in s as a contiguous run of characters
Contains(s, k) ==
    IF Len(s) < Len(k) THEN FALSE
    ELSE SubSeq(s, 1, Len(k)) = k \/ Contains(Tail(s), k)

Returned == lastCall.called /\ ~lastCall.threw

Input(f) == lastCall.payload[f].value

LowerInput(f) == toLowerCase(Input(f))

PersonaNames == [i \in 1..Len(lastCall.plan.personaInsights) |->
                    lastCall.plan.personaInsights[i].persona]

BuilderMatched ==
    Contains(LowerInput("audience"), "founder") \/ Contains(LowerInput("audience"), "developer")

OperatorMatched ==
    \/ Contains(LowerInput("audience"), "marketing")
    \/ Contains(LowerInput("audience"), "growth")
    \/ Contains(LowerInput("primaryGoal"), "pipeline")

ExecutiveMatched ==
    \/ Contains(LowerInput("audience"), "executive")
    \/ Contains(LowerInput("audience"), "c-suite")
    \/ Contains(LowerInput("primaryGoal"), "enterprise")

\* C4: Builder, Operator and Executive are selected by case-insensitive
\* substring containment of their keywords, returned in that order, and the
\* result is the single Operator when none matched; "cofounder" matches
\* "founder", "enterprising startup" does not match "enterprise".
C4_PersonaSelection ==
    Returned =>
        LET matched == (IF BuilderMatched THEN <<"Hands-on Builder">> ELSE <<>>)
                       \o (IF OperatorMatched THEN <<"Growth Operator">> ELSE <<>>)
                       \o (IF ExecutiveMatched THEN <<"Strategic Executive">> ELSE <<>>)
        IN  /\ PersonaNames = IF matched = <<>> THEN <<"Growth Operator">> ELSE matched
            /\ Input("audience") = "Cofounder-led startups" => PersonaNames[1] = "Hands-on Builder"
            /\ (Input("audience") = "Enterprising startup" /\ Input("primaryGoal") = "Build brand awareness")
                  => PersonaNames = <<"Growth Operator">>
            /\ Input("audience") = "C-Suite Executives"
                  => PersonaNames[Len(PersonaNames)] = "Strategic Executive"

\* all three personas selected, through upper-case text in the audience
C4_Witness ==
    /\ Returned
    /\ Input("audience") = "Founders, marketing and executive sponsors"
    /\ PersonaNames = <<"Hands-on Builder", "Growth Operator", "Strategic Executive">>

HorizonHas(k) == Contains(LowerInput("launchHorizon"), k)

PhaseCount == Len(lastCall.plan.launchPhases)

\* C5 as stated: the plan has 4 launch phases iff the horizon contains
\* "quarter", also when it contains "30" or "month" as well, and 3 otherwise.
C5_AsStated ==
    Returned => PhaseCount = IF HorizonHas("quarter") THEN 4 ELSE 3

\* C5: the plan has 4 launch phases iff the lower-cased horizon contains
\* "quarter" and contains neither "30" nor "month", and 3 phases otherwise.
C5_PhaseCount ==
    Returned =>
        PhaseCount = IF HorizonHas("quarter") /\ ~HorizonHas("30") /\ ~HorizonHas("month")
                     THEN 4 ELSE 3

\* a horizon with "quarter" next to "30" or "month": three phases
C5_Witness ==
    /\ Returned
    /\ HorizonHas("quarter")
    /\ HorizonHas("30") \/ HorizonHas("month")
    /\ PhaseCount = 3

PillarNames == [i \in 1..Len(lastCall.plan.messagingPillars) |->
                   lastCall.plan.messagingPillars[i].pillar]

BuilderSelected == \E i \in 1..Len(PersonaNames) : PersonaNames[i] = "Hands-on Builder"

\* C7: the plan's pillars are Operational Precision, Revenue Impact and
\* Differentiated Advantage, followed by Builder Velocity iff personaInsights
\* holds the Hands-on Builder; builder keywords in the goal alone add nothing.
C7_MessagingPillars ==
    Returned =>
        /\ PillarNames =
              <<"Operational Precision", "Revenue Impact", "Differentiated Advantage">>
              \o (IF BuilderSelected THEN <<"Builder Velocity">> ELSE <<>>)
        /\ ~BuilderMatched => Len(PillarNames) = 3

\* a plan with the Builder persona and the fourth pillar
C7_Witness ==
    /\ Returned
    /\ BuilderSelected
    /\ Len(PillarNames) = 4
    /\ PillarNames[4] = "Builder Velocity"

GoalHas(k) == Contains(LowerInput("primaryGoal"), k)

RevenueGoal == GoalHas("pipeline") \/ GoalHas("revenue")

AdoptionGoal == GoalHas("adoption") \/ GoalHas("activation")

ChannelNames == {channelPlays0[i].channel : i \in 1..Len(channelPlays0)}

BaseRole(name) ==
    channelPlays0[CHOOSE i \in 1..Len(channelPlays0) : channelPlays0[i].channel = name].role

\* the roles the plan gives to the channel of that name
PlanRoles(name) ==
    {lastCall.plan.channelStrategy[i].role :
        i \in {j \in 1..Len(lastCall.plan.channelStrategy) :
                  lastCall.plan.channelStrategy[j].channel = name}}

OnlyChanged(name, clause) ==
    /\ PlanRoles(name) = {BaseRole(name) \o clause}
    /\ \A other \in ChannelNames \ {name} : PlanRoles(other) = {BaseRole(other)}

\* C8 as stated: a goal with "pipeline" or "revenue" changes the Strategic
\* Alliances role and no other; a goal with "adoption" or "activation" changes
\* the Product-Led Motion role and no other; any other goal changes none.
C8_AsStated ==
    Returned =>
        /\ RevenueGoal => OnlyChanged("Strategic Alliances", coSellingClause)
        /\ AdoptionGoal => OnlyChanged("Product-Led Motion", onboardingClause)
        /\ (~RevenueGoal /\ ~AdoptionGoal) =>
              \A name \in ChannelNames : PlanRoles(name) = {BaseRole(name)}

\* C8: a goal of one keyword group only changes the role of that group's
\* channel and no other; a goal of both groups changes exactly the Strategic
\* Alliances and the Product-Led Motion roles, each by its own clause; a goal
\* of neither group changes no role.
C8_RoleMutation ==
    Returned =>
        /\ (RevenueGoal /\ ~AdoptionGoal) => OnlyChanged("Strategic Alliances", coSellingClause)
        /\ (AdoptionGoal /\ ~RevenueGoal) => OnlyChanged("Product-Led Motion", onboardingClause)
        /\ (RevenueGoal /\ AdoptionGoal) =>
              /\ PlanRoles("Strategic Alliances") = {BaseRole("Strategic Alliances") \o coSellingClause}
              /\ PlanRoles("Product-Led Motion") = {BaseRole("Product-Led Motion") \o onboardingClause}
              /\ PlanRoles("Founders' Narrative") = {BaseRole("Founders' Narrative")}
              /\ PlanRoles("Category Community") = {BaseRole("Category Community")}
        /\ (~RevenueGoal /\ ~AdoptionGoal) =>
              \A name \in ChannelNames : PlanRoles(name) = {BaseRole(name)}

\* a goal of both groups, with both roles changed
C8_Witness ==
    /\ Returned
    /\ RevenueGoal /\ AdoptionGoal
    /\ PlanRoles("Strategic Alliances") # {BaseRole("Strategic Alliances")}
    /\ PlanRoles("Product-Led Motion") # {BaseRole("Product-Led Motion")}

PhaseNames == [i \in 1..PhaseCount |-> lastCall.plan.launchPhases[i].name]

PhaseDurations == [i \in 1..PhaseCount |-> lastCall.plan.launchPhases[i].duration]

\* C10: the labels are the Week sequence when the lower-cased horizon
\* contains "30" or "month" (ahead of "quarter"), else the Month sequence when
\* it contains "quarter", else the Phase sequence; the phases are Ignition,
\* Amplify, Convert, with Scale fourth iff there is a fourth label, and the
\* i-th phase's duration is the i-th label.
C10_PhaseShaping ==
    Returned =>
        LET labels == IF HorizonHas("30") \/ HorizonHas("month")
                      THEN <<"Week 0-2", "Week 3-4", "Week 5-8">>
                      ELSE IF HorizonHas("quarter")
                           THEN <<"Month 0-1", "Month 2", "Month 3", "Month 4+">>
                           ELSE <<"Phase 1", "Phase 2", "Phase 3">>
        IN  /\ PhaseNames = <<"Ignition", "Amplify", "Convert">>
                            \o (IF Len(labels) = 4 THEN <<"Scale">> ELSE <<>>)
            /\ PhaseDurations = labels
            /\ Input("launchHorizon") = "Q3 2030 quarter" => PhaseDurations[1] = "Week 0-2"
            /\ Input("launchHorizon") = "Next Quarter" => PhaseDurations[4] = "Month 4+"
            /\ Input("launchHorizon") = "90-day orchestrated launch" => PhaseDurations[3] = "Phase 3"

\* a quarter horizon: four phases, Scale last, on the Month labels
C10_Witness ==
    /\ Returned
    /\ PhaseNames = <<"Ignition", "Amplify", "Convert", "Scale">>
    /\ PhaseDurations = <<"Month 0-1", "Month 2", "Month 3", "Month 4+">>

(***************************************************************************)
(* Properties of the plans across requests.                                *)
(***************************************************************************)
HasPlan(r) == pc[r] = "done" /\ response[r].kind = "plan"

ExperimentTitles(r) == [i \in 1..Len(response[r].json.growthExperiments) |->
                           response[r].json.growthExperiments[i].title]

MetricNames(r) == [i \in 1..Len(response[r].json.measurementFramework) |->
                      response[r].json.measurementFramework[i].metric]

\* C6: every plan, for every input and after any sequence of requests, has
\* the same three growth experiments and the same four metrics, in order.
C6_StaticTables ==
    \A r \in Requests :
        HasPlan(r) =>
            /\ response[r].json.growthExperiments = growthBacklog0
            /\ response[r].json.measurementFramework = measurementMatrix0
            /\ ExperimentTitles(r) = <<"Persona-Calibrated Onboarding Concierge",
                                       "Narrative Velocity Series",
                                       "AI Pilot Sprint Rooms">>
            /\ MetricNames(r) = <<"Activation Velocity", "Pipeline Momentum",
                                  "Expansion Signal", "Advocacy Flywheel">>

\* two plans for different inputs, one after the other
C6_Witness ==
    \E r1, r2 \in Requests :
        /\ HasPlan(r1) /\ HasPlan(r2)
        /\ body[r1] # body[r2]
        /\ response[r1].json.executiveSummary # "none"
        /\ Len(response[r2].json.growthExperiments) = 3

\* C9: however the handlers interleave, every response is the one the
\* request would get if it were the only request the server ever processed.
C9_Independent ==
    \A r \in Requests :
        pc[r] = "done" => response[r] = POST(Tables0, body[r]).response

\* a plan and a validation error side by side, each from its own payload
C9_Witness ==
    \E r1, r2 \in Requests :
        /\ pc[r1] = "done" /\ body[r1] = JsonObject(PipelinePayload)
        /\ response[r1].kind = "plan"
        /\ pc[r2] = "done" /\ body[r2] = MissingPricingAndVoice
        /\ response[r2].kind = "validation_error"


(***************************************************************************)
(* Further properties of the selection functions, on direct calls.         *)
(***************************************************************************)
Channels == lastCall.plan.channelStrategy

\* C11: channelStrategy has the four channels in table order with the base
\* cadences and KPIs; the Strategic Alliances role carries the co-selling
\* clause iff the goal has "pipeline" or "revenue", the Product-Led Motion
\* role the onboarding clause iff it has "adoption" or "activation", each
\* rule on its own, and the two other roles are the base roles.
C11_ChannelAdaptation ==
    Returned =>
        /\ Len(Channels) = 4
        /\ [i \in 1..4 |-> Channels[i].channel] =
              <<"Founders' Narrative", "Product-Led Motion",
                "Category Community", "Strategic Alliances">>
        /\ \A i \in 1..4 :
              /\ Channels[i].cadences = channelPlays0[i].cadences
              /\ Channels[i].kpis = channelPlays0[i].kpis
        /\ Channels[1].role = channelPlays0[1].role
        /\ Channels[3].role = channelPlays0[3].role
        /\ Channels[2].role = IF AdoptionGoal
                              THEN channelPlays0[2].role \o " Double down on aha moments and guided onboarding."
                              ELSE channelPlays0[2].role
        /\ Channels[4].role = IF RevenueGoal
                              THEN channelPlays0[4].role \o " Prioritize co-selling motions for revenue acceleration."
                              ELSE channelPlays0[4].role

\* a pipeline goal: the fourth channel's role ends with the co-selling clause
C11_Witness ==
    /\ Returned
    /\ GoalHas("pipeline") /\ ~AdoptionGoal
    /\ Channels[4].role =
          "Leverage partner ecosystems to tap into qualified demand. Prioritize co-selling motions for revenue acceleration."
    /\ Channels[2].role = channelPlays0[2].role

Summary == lastCall.plan.executiveSummary

ExpectedSummary ==
    "Launch mission: " \o Input("productName") \o " will " \o LowerInput("primaryGoal") \o "."
    \o " "
    \o "We anchor messaging around the core product promise -- " \o Input("productSummary") \o "."
    \o " "
    \o "Tone must stay " \o LowerInput("brandVoice") \o " while dramatizing the problem: "
    \o Input("problem") \o "."
    \o " "
    \o "We lead with proof on how we " \o LowerInput("differentiation")
    \o " and reinforce the pricing model (" \o Input("pricing") \o ")."
    \o " "
    \o "Initial focus: orchestrate a " \o LowerInput("launchHorizon")
    \o " launch train that blends product-led motions with strategic storytelling."

SampleSummaryInput ==
    /\ Input("primaryGoal") = "Increase activation"
    /\ Input("brandVoice") = "Bold, visionary"
    /\ Input("launchHorizon") = "Next Quarter"

SampleSummary ==
    "Launch mission: Signal AI will increase activation. We anchor messaging around the core product promise -- AI copilots for revenue teams. Tone must stay bold, visionary while dramatizing the problem: Manual Reporting. We lead with proof on how we automate insights and reinforce the pricing model (Usage-based). Initial focus: orchestrate a next quarter launch train that blends product-led motions with strategic storytelling."

\* C12: the summary is the five template sentences joined by single spaces,
\* with productName, productSummary, problem and pricing as typed and
\* primaryGoal, brandVoice, differentiation and launchHorizon lower-cased; the
\* "authoritative" tone is not used; audience and successMetric play no part.
C12_ExecutiveSummary ==
    Returned =>
        /\ Summary = ExpectedSummary
        /\ \A i \in 1..(Len(Summary) - 12) : SubSeq(Summary, i, i + 12) # "authoritative"
        /\ SampleSummaryInput => Summary = SampleSummary

\* the sample record, with upper-case letters in every lower-cased slot
C12_Witness ==
    /\ Returned
    /\ SampleSummaryInput
    /\ Summary = SampleSummary
    /\ Input("audience") = "Ops managers"
    /\ Input("successMetric") = "Pipeline: 30 enterprise founders"

PersonaRank(name) ==
    CASE name = "Hands-on Builder" -> 1
      [] name = "Growth Operator" -> 2
      [] name = "Strategic Executive" -> 3
      [] OTHER -> 0

\* C15: personaInsights has one to three entries, all among Hands-on
\* Builder, Growth Operator, Strategic Executive, in that order and none
\* twice; when no keyword rule matched it is the Operator alone, and a matched
\* Operator is listed once.
C15_PersonaListShape ==
    Returned =>
        /\ Len(PersonaNames) \in 1..3
        /\ \A i \in 1..Len(PersonaNames) : PersonaRank(PersonaNames[i]) \in 1..3
        /\ \A i, j \in 1..Len(PersonaNames) :
              i < j => PersonaRank(PersonaNames[i]) < PersonaRank(PersonaNames[j])
        /\ Cardinality({i \in 1..Len(PersonaNames) : PersonaNames[i] = "Growth Operator"})
              = IF OperatorMatched \/ (~BuilderMatched /\ ~ExecutiveMatched) THEN 1 ELSE 0

\* the Operator matched by keyword next to another persona: listed once
C15_Witness ==
    /\ Returned
    /\ OperatorMatched /\ BuilderMatched
    /\ Len(PersonaNames) >= 2
    /\ Cardinality({i \in 1..Len(PersonaNames) : PersonaNames[i] = "Growth Operator"}) = 1

\* C16: there are as many phases as labels in the chosen timeline, so the
\* repeat-the-last-label branch is not taken: every phase has a label of its
\* own and no two phases share a duration.
C16_PhasesMatchLabels ==
    Returned =>
        LET labels == timeline(LowerInput("launchHorizon"))
        IN  /\ PhaseCount = Len(labels)
            /\ \A i \in 1..PhaseCount : i <= Len(labels)
            /\ \A i, j \in 1..PhaseCount :
                  i # j => PhaseDurations[i] # PhaseDurations[j]
            /\ \A i \in 1..PhaseCount :
                  PhaseDurations[i] \in {labels[k] : k \in 1..Len(labels)}

\* a three-label timeline with three phases, each on its own label
C16_Witness ==
    /\ Returned
    /\ PhaseCount = 3
    /\ Cardinality({PhaseDurations[i] : i \in 1..PhaseCount}) = 3
    /\ HorizonHas("month")

(***************************************************************************)
(* Further properties of the plans across requests.                        *)
(***************************************************************************)
ClauseFree(role) ==
    ~Contains(role, coSellingClause) /\ ~Contains(role, onboardingClause)

KeywordFreeGoal(payload) ==
    LET goal == toLowerCase(payload["primaryGoal"].value)
    IN  /\ ~Contains(goal, "pipeline") /\ ~Contains(goal, "revenue")
        /\ ~Contains(goal, "adoption") /\ ~Contains(goal, "activation")

\* C13: after any sequence of calls the four module-level tables are as
\* they were at start; no appended clause is in the channel table, and a plan
\* for a goal without keywords has the base roles whatever came before it.
C13_TablesUntouched ==
    /\ personaArchetypes = personaArchetypes0
    /\ channelPlays = channelPlays0
    /\ growthBacklog = growthBacklog0
    /\ measurementMatrix = measurementMatrix0
    /\ \A i \in 1..Len(channelPlays) : ClauseFree(channelPlays[i].role)
    /\ \A r \in Requests :
          (HasPlan(r) /\ KeywordFreeGoal(body[r].fields)) =>
              \A i \in 1..Len(response[r].json.channelStrategy) :
                  response[r].json.channelStrategy[i].role = channelPlays0[i].role

\* a plan with an appended clause next to a plan with the base roles
C13_Witness ==
    \E r1, r2 \in Requests :
        /\ HasPlan(r1) /\ ~KeywordFreeGoal(body[r1].fields)
        /\ ~ClauseFree(response[r1].json.channelStrategy[4].role)
        /\ HasPlan(r2) /\ KeywordFreeGoal(body[r2].fields)
        /\ ClauseFree(response[r2].json.channelStrategy[4].role)

SameButMetric(p1, p2) ==
    /\ DOMAIN p1 = DOMAIN p2
    /\ \A f \in DOMAIN p1 : f # "successMetric" => p1[f] = p2[f]

\* C14: two valid records that differ only in successMetric get the same plan.
C14_MetricIgnored ==
    \A r1, r2 \in Requests :
        \A i \in 1..Len(calls[r1]), j \in 1..Len(calls[r2]) :
            SameButMetric(calls[r1][i].payload, calls[r2][j].payload) =>
                calls[r1][i].plan = calls[r2][j].plan

\* two calls whose records differ in successMetric and in nothing else
C14_Witness ==
    \E r1, r2 \in Requests :
        /\ Len(calls[r1]) = 1 /\ Len(calls[r2]) = 1
        /\ SameButMetric(calls[r1][1].payload, calls[r2][1].payload)
        /\ calls[r1][1].payload["successMetric"] # calls[r2][1].payload["successMetric"]
        /\ ~calls[r1][1].threw /\ ~calls[r2][1].threw


(***************************************************************************)
(* Properties of the form workspace.                                       *)
(***************************************************************************)
InFlight == {h \in Submits : submits[h].pc # "idle"}

\* C17: a submission can start only while loading is false, so at most one
\* handleSubmit is in flight; loading is true exactly while one is, so every
\* finished submission leaves loading false; and once a submission has
\* finished and loading is false, exactly one of result and error is set:
\* result alone after an ok response, error alone (any shown result cleared)
\* after a non-ok response or a rejected fetch or parse.
C17_WorkspaceStateMachine ==
    /\ Cardinality(InFlight) <= 1
    /\ loading <=> InFlight # {}
    /\ (~loading /\ lastOutcome # "none") => (result.set # error.set)
    /\ (~loading /\ lastOutcome = "success") => (result.set /\ ~error.set)
    /\ (~loading /\ lastOutcome = "failure") => (error.set /\ ~result.set)

\* a second submission in flight over the plan shown by the first
C17_Witness ==
    /\ loading
    /\ lastOutcome = "success"
    /\ result.set
    /\ result.data.executiveSummary # "none"
    /\ ~error.set
    /\ \E h \in Submits : submits[h].pc = "parsing" /\ ~ok(submits[h].response)


====
